---- MODULE Spec2Model ----
(***************************************************************************)
(* A model of package guti (src/list.go): the generic collection           *)
(* operations IsExist, Filter, Any, Reverse, FilterNil, MapReduce, Batch   *)
(* and the CSV exporter SaveAsCSV.                                         *)
(*                                                                         *)
(* The library is single-threaded and stateless, so the model runs one     *)
(* call at a time: from "idle" one function is called with inputs drawn    *)
(* from bounded sets, and runs to its return, its panic, or (Batch with a  *)
(* zero batch size) for as long as the bound on its loop lets it.          *)
(* Functions with callbacks or with an environment (Filter, Any,           *)
(* MapReduce, Batch, SaveAsCSV) are modelled one loop iteration per step;  *)
(* the callback-free pure ones (IsExist, Reverse, FilterNil) are operators *)
(* that run the loop of the code, applied by one action.                   *)
(***************************************************************************)
EXTENDS Integers, Sequences, FiniteSets, TLC

\* ------------------------------------------------------------ bounds

\* Longest input sequence.
MaxLen == 3
\* Plain elements are the integers 1..MaxVal.
MaxVal == 3
\* Largest and (negated) smallest batch size requested of Batch.
MaxBatchSize == 4
MaxNegBatchSize == 2
\* Iterations Batch may make beyond one per element: only a loop that makes
\* no progress (batchSize = 0) ever uses them.
MaxSpin == 2

\* MapReduce's elements are the integers 1..MaxMRVal.
MaxMRVal == 2

\* Longest sequence searched by IsExist, and longest record list exported.
MaxExistLen == 2
MaxRows == 2

Elem == 1..MaxVal

SeqsUpTo(S, n) == UNION {[1..k -> S] : k \in 0..n}

\* ------------------------------------------------------------ Go slices

\* A Go slice value: nil (var s []T) or allocated, with its elements.
NilSlice == [isNil |-> TRUE, elems |-> <<>>]

\* []interface{}{} and make([]interface{}, 0): allocated and empty.
EmptySlice == [isNil |-> FALSE, elems |-> <<>>]

\* append(s, x): always an allocated slice.
GoAppend(s, x) == [isNil |-> FALSE, elems |-> Append(s.elems, x)]

VARIABLES
    pc,               \* "idle", or "<Function>.<position>"
    calls,            \* the callbacks invoked so far, in order
    Batch_items,      \* Batch: items
    Batch_arg,        \* Batch: batchSize as passed by the caller
    Batch_batchSize,  \* Batch: batchSize after line 271
    Batch_i,          \* Batch: i
    Batch_batches,    \* Batch: batches
    Filter_data,      \* Filter: data
    Filter_predicate, \* Filter: predicate
    Filter_k,         \* Filter: elements of data ranged over so far
    Filter_result,    \* Filter: result
    Any_data,         \* Any: data
    Any_predicate,    \* Any: predicate
    Any_k,            \* Any: elements of data ranged over so far
    Any_ret,          \* Any: the value returned
    MR_items,         \* MapReduce: items
    MR_mapper,        \* MapReduce: mapper
    MR_reducer,       \* MapReduce: reducer
    MR_mappedItems,   \* MapReduce: mappedItems
    MR_reducedResult, \* MapReduce: reducedResult
    MR_i,             \* MapReduce: i, of the loop running
    Exist_what,       \* IsExist: what
    Exist_in,         \* IsExist: in
    Exist_ret,        \* IsExist: the value returned
    Reverse_in,       \* Reverse: the sequence first passed by the caller
    Reverse_slice,    \* Reverse: slice, as the call leaves it
    Reverse_result,   \* Reverse: result
    FilterNil_slice,  \* FilterNil: slice
    FilterNil_result, \* FilterNil: result
    CSV_data,         \* SaveAsCSV: data, each record as the kinds of its field values
    CSV_file,         \* SaveAsCSV: file, and the rows that reached it
    CSV_writer,       \* SaveAsCSV: writer, its buffer and its sticky error
    CSV_i,            \* SaveAsCSV: i
    CSV_ret           \* SaveAsCSV: the error returned

batchVars == <<Batch_items, Batch_arg, Batch_batchSize, Batch_i, Batch_batches>>
filterVars == <<Filter_data, Filter_predicate, Filter_k, Filter_result>>
anyVars == <<Any_data, Any_predicate, Any_k, Any_ret>>
mrVars == <<MR_items, MR_mapper, MR_reducer, MR_mappedItems, MR_reducedResult, MR_i>>

existVars == <<Exist_what, Exist_in, Exist_ret>>
reverseVars == <<Reverse_in, Reverse_slice, Reverse_result>>
filterNilVars == <<FilterNil_slice, FilterNil_result>>
csvVars == <<CSV_data, CSV_file, CSV_writer, CSV_i, CSV_ret>>
pureVars == <<existVars, reverseVars, filterNilVars, csvVars>>

vars == <<pc, calls, batchVars, filterVars, anyVars, mrVars, pureVars>>

\* One invocation of a callback: which one, at which 0-based position of the
\* loop, with which arguments (b is FALSE for the one-argument callbacks).
Invocation(f, idx, a, b) == [f |-> f, idx |-> idx, a |-> a, b |-> b]

\* ------------------------------------------------------------ Batch

\* int(math.Min(float64(a), float64(b))): exact for the small integers here.
MathMin(a, b) == IF a < b THEN a ELSE b

\* reflect.Value.Slice(lo, hi) panics unless 0 <= lo <= hi <= cap; the
\* slices here have cap = len.
SliceInBounds(s, lo, hi) == 0 <= lo /\ lo <= hi /\ hi <= Len(s)

\* reflect.Value.Slice(lo, hi): the elements at 0-based positions lo..hi-1.
ValueSlice(s, lo, hi) == SubSeq(s, lo + 1, hi)

ConvertSliceInterfaceToSlice(slice) == [k \in 1..Len(slice) |-> slice[k]]

\* A variant of BatchEnd that ends every batch one element early.
BatchEndOffByOne(i, batchSize, n) == MathMin(i + batchSize - 1, n)

\* The end of the batch that starts at i (line 274).
BatchEnd(i, batchSize, n) == MathMin(i + batchSize, n)

\* Lines 268-271: the call, up to the clamped batch size.
Batch_Call ==
    /\ pc = "idle"
    /\ \E S \in SeqsUpTo(Elem, MaxLen), b \in (0 - MaxNegBatchSize)..MaxBatchSize :
          /\ Batch_items' = S
          /\ Batch_arg' = b
          /\ Batch_batchSize' = MathMin(b, Len(S))
    /\ Batch_i' = 0
    /\ Batch_batches' = NilSlice
    /\ pc' = "Batch.loop"
    /\ UNCHANGED <<calls, filterVars, anyVars, mrVars, pureVars>>

\* Lines 273-276: one iteration whose Slice(i, end) is in bounds.
Batch_Loop ==
    /\ pc = "Batch.loop"
    /\ Batch_i < Len(Batch_items)
    /\ Len(Batch_batches.elems) < Len(Batch_items) + MaxSpin
    /\ LET end == BatchEnd(Batch_i, Batch_batchSize, Len(Batch_items)) IN
          /\ SliceInBounds(Batch_items, Batch_i, end)
          /\ Batch_batches' = GoAppend(Batch_batches,
                 ConvertSliceInterfaceToSlice(ValueSlice(Batch_items, Batch_i, end)))
    /\ Batch_i' = Batch_i + Batch_batchSize
    /\ UNCHANGED <<pc, calls, Batch_items, Batch_arg, Batch_batchSize>>
    /\ UNCHANGED <<filterVars, anyVars, mrVars, pureVars>>

\* Line 275: Slice(i, end) out of bounds panics.
Batch_Panic ==
    /\ pc = "Batch.loop"
    /\ Batch_i < Len(Batch_items)
    /\ ~SliceInBounds(Batch_items, Batch_i,
                      BatchEnd(Batch_i, Batch_batchSize, Len(Batch_items)))
    /\ pc' = "Batch.panicked"
    /\ UNCHANGED <<calls, batchVars, filterVars, anyVars, mrVars, pureVars>>

\* Lines 273, 278: the loop condition fails and batches is returned.
Batch_Return ==
    /\ pc = "Batch.loop"
    /\ ~(Batch_i < Len(Batch_items))
    /\ pc' = "Batch.returned"
    /\ UNCHANGED <<calls, batchVars, filterVars, anyVars, mrVars, pureVars>>

\* ------------------------------------------------------------ Filter

\* A variant of FilterKeep that puts the element in front.
FilterKeepPrepend(result, d, ok) ==
    IF ok THEN [isNil |-> FALSE, elems |-> <<d>> \o result.elems] ELSE result

\* Lines 108-110: the element is appended when the predicate holds of it.
FilterKeep(result, d, ok) == IF ok THEN GoAppend(result, d) ELSE result

\* Lines 105-106.
Filter_Call ==
    /\ pc = "idle"
    /\ \E S \in SeqsUpTo(Elem, MaxLen), p \in [Elem -> BOOLEAN] :
          /\ Filter_data' = S
          /\ Filter_predicate' = p
    /\ Filter_k' = 0
    /\ Filter_result' = EmptySlice
    /\ pc' = "Filter.loop"
    /\ UNCHANGED <<calls, batchVars, anyVars, mrVars, pureVars>>

\* Lines 107-111: one iteration of the range loop.
Filter_Loop ==
    /\ pc = "Filter.loop"
    /\ Filter_k < Len(Filter_data)
    /\ LET d == Filter_data[Filter_k + 1] IN
          /\ calls' = Append(calls, Invocation("predicate", Filter_k, d, FALSE))
          /\ Filter_result' = FilterKeep(Filter_result, d, Filter_predicate[d])
    /\ Filter_k' = Filter_k + 1
    /\ UNCHANGED <<pc, Filter_data, Filter_predicate, batchVars, anyVars, mrVars, pureVars>>

\* Line 112.
Filter_Return ==
    /\ pc = "Filter.loop"
    /\ Filter_k = Len(Filter_data)
    /\ pc' = "Filter.returned"
    /\ UNCHANGED <<calls, batchVars, filterVars, anyVars, mrVars, pureVars>>

\* ------------------------------------------------------------ Any

\* Lines 127.
Any_Call ==
    /\ pc = "idle"
    /\ \E S \in SeqsUpTo(Elem, MaxLen), p \in [Elem -> BOOLEAN] :
          /\ Any_data' = S
          /\ Any_predicate' = p
    /\ Any_k' = 0
    /\ Any_ret' = FALSE
    /\ pc' = "Any.loop"
    /\ UNCHANGED <<calls, batchVars, filterVars, mrVars, pureVars>>

\* A variant of Any_Match that notes the match and goes on with the loop.
Any_MatchKeepsLooping ==
    /\ pc = "Any.loop"
    /\ Any_k < Len(Any_data)
    /\ Any_predicate[Any_data[Any_k + 1]]
    /\ calls' = Append(calls, Invocation("predicate", Any_k, Any_data[Any_k + 1], FALSE))
    /\ Any_ret' = TRUE
    /\ Any_k' = Any_k + 1
    /\ UNCHANGED <<pc, Any_data, Any_predicate, batchVars, filterVars, mrVars, pureVars>>

\* Lines 128-131: the predicate holds of the element, and Any returns true.
Any_Match ==
    /\ pc = "Any.loop"
    /\ Any_k < Len(Any_data)
    /\ Any_predicate[Any_data[Any_k + 1]]
    /\ calls' = Append(calls, Invocation("predicate", Any_k, Any_data[Any_k + 1], FALSE))
    /\ Any_ret' = TRUE
    /\ pc' = "Any.returned"
    /\ UNCHANGED <<Any_data, Any_predicate, Any_k, batchVars, filterVars, mrVars, pureVars>>

\* Lines 128-129, 132: the predicate does not hold, and the loop goes on.
Any_NoMatch ==
    /\ pc = "Any.loop"
    /\ Any_k < Len(Any_data)
    /\ ~Any_predicate[Any_data[Any_k + 1]]
    /\ calls' = Append(calls, Invocation("predicate", Any_k, Any_data[Any_k + 1], FALSE))
    /\ Any_k' = Any_k + 1
    /\ UNCHANGED <<pc, Any_data, Any_predicate, Any_ret, batchVars, filterVars, mrVars, pureVars>>

\* Line 133: data is exhausted.
Any_ReturnFalse ==
    /\ pc = "Any.loop"
    /\ Any_k = Len(Any_data)
    /\ Any_ret' = FALSE
    /\ pc' = "Any.returned"
    /\ UNCHANGED <<calls, Any_data, Any_predicate, Any_k, batchVars, filterVars, mrVars, pureVars>>

\* ------------------------------------------------------------ MapReduce

MRElem == 1..MaxMRVal

\* A variant of ReduceStep that passes the mapped item first.
ReduceStepSwapped(reducer, acc, x) == reducer[<<x, acc>>]

\* Line 261: the reducer takes the accumulator first.
ReduceStep(reducer, acc, x) == reducer[<<acc, x>>]

\* Lines 251-253.
MapReduce_Call ==
    /\ pc = "idle"
    /\ \E S \in SeqsUpTo(MRElem, MaxLen), m \in [MRElem -> BOOLEAN],
          r \in [BOOLEAN \X BOOLEAN -> BOOLEAN] :
          /\ MR_items' = S
          /\ MR_mapper' = m
          /\ MR_reducer' = r
    /\ MR_mappedItems' = EmptySlice
    /\ MR_reducedResult' = FALSE
    /\ MR_i' = 0
    /\ pc' = "MapReduce.map"
    /\ UNCHANGED <<calls, batchVars, filterVars, anyVars, pureVars>>

\* Lines 255-257: one iteration of the mapping loop.
MapReduce_Map ==
    /\ pc = "MapReduce.map"
    /\ MR_i < Len(MR_items)
    /\ LET x == MR_items[MR_i + 1] IN
          /\ calls' = Append(calls, Invocation("mapper", MR_i, x, FALSE))
          /\ MR_mappedItems' = GoAppend(MR_mappedItems, MR_mapper[x])
    /\ MR_i' = MR_i + 1
    /\ UNCHANGED <<pc, MR_items, MR_mapper, MR_reducer, MR_reducedResult>>
    /\ UNCHANGED <<batchVars, filterVars, anyVars, pureVars>>

\* Lines 259-260: the first mapped item seeds the fold.
MapReduce_Seed ==
    /\ pc = "MapReduce.map"
    /\ ~(MR_i < Len(MR_items))
    /\ Len(MR_mappedItems.elems) > 0
    /\ MR_reducedResult' = MR_mappedItems.elems[1]
    /\ MR_i' = 1
    /\ pc' = "MapReduce.reduce"
    /\ UNCHANGED <<calls, MR_items, MR_mapper, MR_reducer, MR_mappedItems>>
    /\ UNCHANGED <<batchVars, filterVars, anyVars, pureVars>>

\* Line 259: mappedItems[0] of an empty slice panics (index out of range).
MapReduce_Panic ==
    /\ pc = "MapReduce.map"
    /\ ~(MR_i < Len(MR_items))
    /\ Len(MR_mappedItems.elems) = 0
    /\ pc' = "MapReduce.panicked"
    /\ UNCHANGED <<calls, batchVars, filterVars, anyVars, mrVars, pureVars>>

\* Lines 260-262: one iteration of the reducing loop.
MapReduce_Reduce ==
    /\ pc = "MapReduce.reduce"
    /\ MR_i < Len(MR_mappedItems.elems)
    /\ LET x == MR_mappedItems.elems[MR_i + 1] IN
          /\ calls' = Append(calls, Invocation("reducer", MR_i, MR_reducedResult, x))
          /\ MR_reducedResult' = ReduceStep(MR_reducer, MR_reducedResult, x)
    /\ MR_i' = MR_i + 1
    /\ UNCHANGED <<pc, MR_items, MR_mapper, MR_reducer, MR_mappedItems>>
    /\ UNCHANGED <<batchVars, filterVars, anyVars, pureVars>>

\* Line 264.
MapReduce_Return ==
    /\ pc = "MapReduce.reduce"
    /\ ~(MR_i < Len(MR_mappedItems.elems))
    /\ pc' = "MapReduce.returned"
    /\ UNCHANGED <<calls, batchVars, filterVars, anyVars, mrVars, pureVars>>

\* ------------------------------------------------------------ IsExist

\* The reflect.Kind of a value's dynamic type, and the kinds of the switch.
IntKinds == {"int", "int8", "int16", "int32", "int64"}
UintKinds == {"uint", "uint8", "uint16", "uint32", "uint64"}
FloatKinds == {"float32", "float64"}

\* epsilon = 1e-6, in the unit of the float values below (1e-7).
epsilon == 10

\* A value is its kind and its words: one integer for a primitive (a float
\* in units of 1e-7, a string or a boolean by a number standing for it), the
\* field values for a struct. The kind "nil" is the nil interface.
ExistValues ==
    {[kind |-> "int", val |-> <<3>>], [kind |-> "int", val |-> <<4>>],
     [kind |-> "int64", val |-> <<3>>],
     [kind |-> "uint", val |-> <<3>>],
     [kind |-> "float64", val |-> <<10000000>>],
     [kind |-> "float64", val |-> <<10000005>>],
     [kind |-> "float64", val |-> <<10000500>>],
     [kind |-> "string", val |-> <<1>>], [kind |-> "string", val |-> <<2>>],
     [kind |-> "bool", val |-> <<0>>], [kind |-> "bool", val |-> <<1>>],
     [kind |-> "struct", val |-> <<1, 25>>], [kind |-> "struct", val |-> <<1, 35>>]}

NilValue == [kind |-> "nil", val |-> <<>>]

\* What may be passed as in: a slice of one static element type (every
\* element then has that kind), a []interface{} of mixed elements, or a
\* value that is no slice.
ExistSlices ==
    {[kind |-> "slice", elemKind |-> "interface", elems |-> es] :
        es \in SeqsUpTo(ExistValues, MaxExistLen)}
    \cup UNION {{[kind |-> "slice", elemKind |-> k, elems |-> es] :
                    es \in SeqsUpTo({v \in ExistValues : v.kind = k}, MaxExistLen)} :
                 k \in {v.kind : v \in ExistValues}}
    \cup {[kind |-> "int", elemKind |-> "none", elems |-> <<>>]}

Abs(x) == IF x < 0 THEN 0 - x ELSE x

\* s.Index(i).Kind(): Index(i) has the slice's element type, so an element
\* of a []interface{} has kind Interface whatever value it holds.
IndexKind(s, i) == s.elemKind

\* reflect.DeepEqual(what, s.Index(i).Interface()): same type, equal fields.
DeepEqual(a, b) ==
    /\ a.kind = b.kind
    /\ Len(a.val) = Len(b.val)
    /\ \A f \in 1..Len(a.val) : a.val[f] = b.val[f]

\* Lines 61-86: the switch on the element's kind.
KindEqual(what, e, kind) ==
    CASE kind \in IntKinds -> e.val[1] = what.val[1]
      [] kind \in UintKinds -> e.val[1] = what.val[1]
      [] kind \in FloatKinds -> Abs(e.val[1] - what.val[1]) < epsilon
      [] kind = "string" -> e.val[1] = what.val[1]
      [] kind = "bool" -> e.val[1] = what.val[1]
      [] OTHER -> DeepEqual(what, e)

\* Lines 56-89, from 0-based position i on: "true", "false", or "panic"
\* when reflect.TypeOf(what) is nil (what is the nil interface).
RECURSIVE IsExistFrom(_, _, _)
IsExistFrom(what, s, i) ==
    IF ~(i < Len(s.elems)) THEN "false"
    ELSE IF what.kind = "nil" THEN "panic"
    ELSE IF IndexKind(s, i) # what.kind THEN IsExistFrom(what, s, i + 1)
    ELSE IF KindEqual(what, s.elems[i + 1], IndexKind(s, i)) THEN "true"
    ELSE IsExistFrom(what, s, i + 1)

\* Lines 49-90.
IsExist(what, in) ==
    IF in.kind # "slice" THEN "panic" ELSE IsExistFrom(what, in, 0)

IsExist_Call ==
    /\ pc = "idle"
    /\ \E what \in ExistValues \cup {NilValue}, in \in ExistSlices :
          /\ Exist_what' = what
          /\ Exist_in' = in
    /\ pc' = "IsExist.called"
    /\ UNCHANGED <<calls, batchVars, filterVars, anyVars, mrVars>>
    /\ UNCHANGED <<Exist_ret, reverseVars, filterNilVars, csvVars>>

IsExist_Return ==
    /\ pc = "IsExist.called"
    /\ IsExist(Exist_what, Exist_in) # "panic"
    /\ Exist_ret' = (IsExist(Exist_what, Exist_in) = "true")
    /\ pc' = "IsExist.returned"
    /\ UNCHANGED <<calls, batchVars, filterVars, anyVars, mrVars>>
    /\ UNCHANGED <<Exist_what, Exist_in, reverseVars, filterNilVars, csvVars>>

IsExist_Panic ==
    /\ pc = "IsExist.called"
    /\ IsExist(Exist_what, Exist_in) = "panic"
    /\ pc' = "IsExist.panicked"
    /\ UNCHANGED <<calls, batchVars, filterVars, anyVars, mrVars, pureVars>>

\* ------------------------------------------------------------ Reverse

\* make([]interface{}, n): n nil interfaces, written 0.
MakeSlice(n) == [k \in 1..n |-> 0]

\* Lines 233-235 from (i, j) on, over the memory of both slices.
RECURSIVE ReverseLoop(_, _, _, _)
ReverseLoop(slice, result, i, j) ==
    IF ~(i <= j) THEN [slice |-> slice, result |-> result]
    ELSE ReverseLoop(slice,
                     [result EXCEPT ![i + 1] = slice[j + 1], ![j + 1] = slice[i + 1]],
                     i + 1, j - 1)

\* A variant of Reverse whose loop runs while i < j: the middle element of
\* an odd-length slice is never copied.
ReverseStopsBeforeMiddle(slice) ==
    IF Len(slice) % 2 = 1
    THEN LET r == ReverseLoop(slice, MakeSlice(Len(slice)), 0, Len(slice) - 1) IN
         [r EXCEPT !.result[(Len(slice) + 1) \div 2] = 0]
    ELSE ReverseLoop(slice, MakeSlice(Len(slice)), 0, Len(slice) - 1)

\* Lines 231-237.
Reverse(slice) == ReverseLoop(slice, MakeSlice(Len(slice)), 0, Len(slice) - 1)

Reverse_Call ==
    /\ pc = "idle"
    /\ \E S \in SeqsUpTo(Elem, MaxLen) :
          /\ Reverse_in' = S
          /\ Reverse_slice' = Reverse(S).slice
          /\ Reverse_result' = Reverse(S).result
    /\ pc' = "Reverse.returned"
    /\ UNCHANGED <<calls, batchVars, filterVars, anyVars, mrVars>>
    /\ UNCHANGED <<existVars, filterNilVars, csvVars>>

\* The caller passes the result to Reverse again.
Reverse_Again ==
    /\ pc = "Reverse.returned"
    /\ Reverse_slice' = Reverse(Reverse_result).slice
    /\ Reverse_result' = Reverse(Reverse_result).result
    /\ pc' = "Reverse.returnedTwice"
    /\ UNCHANGED <<calls, batchVars, filterVars, anyVars, mrVars>>
    /\ UNCHANGED <<Reverse_in, existVars, filterNilVars, csvVars>>

\* ------------------------------------------------------------ FilterNil

\* An interface{} value is its dynamic type and value; it is nil exactly
\* when it has no dynamic type. A nil *int stored in it is not nil.
NilInterface == [typ |-> "nil", val |-> 0]
FilterNilValues ==
    {NilInterface, [typ |-> "int", val |-> 1], [typ |-> "int", val |-> 2],
     [typ |-> "*int", val |-> 0]}

\* A variant of NotNil that looks at the value held, not at the interface.
NotNilByValue(v) == v.val # 0

\* Line 243: v != nil.
NotNil(v) == v.typ # "nil"

\* Lines 242-246 from 0-based position k on.
RECURSIVE FilterNilFrom(_, _, _)
FilterNilFrom(slice, k, result) ==
    IF ~(k < Len(slice)) THEN result
    ELSE FilterNilFrom(slice, k + 1,
                       IF NotNil(slice[k + 1]) THEN GoAppend(result, slice[k + 1])
                       ELSE result)

\* Lines 240-248.
FilterNil(slice) == FilterNilFrom(slice, 0, EmptySlice)

FilterNil_Call ==
    /\ pc = "idle"
    /\ \E S \in SeqsUpTo(FilterNilValues, MaxLen) :
          /\ FilterNil_slice' = S
          /\ FilterNil_result' = FilterNil(S)
    /\ pc' = "FilterNil.returned"
    /\ UNCHANGED <<calls, batchVars, filterVars, anyVars, mrVars>>
    /\ UNCHANGED <<existVars, reverseVars, csvVars>>

\* The caller passes the result to FilterNil again.
FilterNil_Again ==
    /\ pc = "FilterNil.returned"
    /\ FilterNil_slice' = FilterNil_result.elems
    /\ FilterNil_result' = FilterNil(FilterNil_result.elems)
    /\ pc' = "FilterNil.returnedTwice"
    /\ UNCHANGED <<calls, batchVars, filterVars, anyVars, mrVars>>
    /\ UNCHANGED <<existVars, reverseVars, csvVars>>

\* ------------------------------------------------------------ SaveAsCSV

\* A record is the kinds of its field values, in declaration order (a field
\* declared interface{} may hold a string in one record and not in another).
CSVRecords == {<<"string", "string">>, <<"string", "int">>}

\* The file is not created, open, or closed (closes counts file.Close());
\* rows are the rows written through to it: 0 is the header, k the k-th record.
NoFile == [created |-> FALSE, open |-> FALSE, closes |-> 0, rows |-> <<>>]

\* csv.NewWriter(file): an empty buffer, no error, never flushed.
NewWriter == [buf |-> <<>>, err |-> FALSE, flushes |-> 0]

\* row[j] = fieldValue.Interface().(string) panics on a field that holds no
\* string (line 314).
AllStrings(record) == \A j \in 1..Len(record) : record[j] = "string"

\* writer.Write(row), lines 306 and 316: the row goes to the buffer; a full
\* buffer is written through to the file, which succeeds or fails, and a
\* failure sticks in the writer. The error Write returns is dropped.
WriterWrite(file, writer, row, outcome) ==
    IF writer.err THEN [file |-> file, writer |-> writer]
    ELSE CASE outcome = "buffered" ->
                [file |-> file, writer |-> [writer EXCEPT !.buf = Append(@, row)]]
           [] outcome = "through" ->
                [file |-> [file EXCEPT !.rows = @ \o Append(writer.buf, row)],
                 writer |-> [writer EXCEPT !.buf = <<>>]]
           [] OTHER ->
                [file |-> file, writer |-> [writer EXCEPT !.err = TRUE]]

\* writer.Flush(), line 319: the buffer is written through to the file,
\* which succeeds or fails; writer.Error() is never asked.
WriterFlush(file, writer, outcome) ==
    IF writer.err THEN [file |-> file, writer |-> [writer EXCEPT !.flushes = @ + 1]]
    ELSE CASE outcome = "through" ->
                [file |-> [file EXCEPT !.rows = @ \o writer.buf],
                 writer |-> [writer EXCEPT !.buf = <<>>, !.flushes = @ + 1]]
           [] OTHER ->
                [file |-> file,
                 writer |-> [writer EXCEPT !.err = TRUE, !.flushes = @ + 1]]

\* The deferred file.Close() of line 296.
FileClose(file) == [file EXCEPT !.open = FALSE, !.closes = @ + 1]

\* Lines 292-298: os.Create succeeds.
SaveAsCSV_Create ==
    /\ pc = "idle"
    /\ \E data \in SeqsUpTo(CSVRecords, MaxRows) : CSV_data' = data
    /\ CSV_file' = [created |-> TRUE, open |-> TRUE, closes |-> 0, rows |-> <<>>]
    /\ CSV_writer' = NewWriter
    /\ pc' = "SaveAsCSV.header"
    /\ UNCHANGED <<calls, batchVars, filterVars, anyVars, mrVars>>
    /\ UNCHANGED <<existVars, reverseVars, filterNilVars, CSV_i, CSV_ret>>

\* Lines 292-295: os.Create fails and its error is returned.
SaveAsCSV_CreateFails ==
    /\ pc = "idle"
    /\ \E data \in SeqsUpTo(CSVRecords, MaxRows) : CSV_data' = data
    /\ CSV_ret' = "err"
    /\ pc' = "SaveAsCSV.returned"
    /\ UNCHANGED <<calls, batchVars, filterVars, anyVars, mrVars>>
    /\ UNCHANGED <<existVars, reverseVars, filterNilVars, CSV_file, CSV_writer, CSV_i>>

\* Lines 301-309: the header row is written.
SaveAsCSV_Header ==
    /\ pc = "SaveAsCSV.header"
    /\ \E outcome \in {"buffered", "through", "failed"} :
          LET w == WriterWrite(CSV_file, CSV_writer, 0, outcome) IN
          /\ CSV_file' = w.file
          /\ CSV_writer' = w.writer
    /\ CSV_i' = 0
    /\ pc' = "SaveAsCSV.rows"
    /\ UNCHANGED <<calls, batchVars, filterVars, anyVars, mrVars>>
    /\ UNCHANGED <<existVars, reverseVars, filterNilVars, CSV_data, CSV_ret>>

\* Lines 310-317: one record, all of whose fields hold strings, is written.
SaveAsCSV_Row ==
    /\ pc = "SaveAsCSV.rows"
    /\ CSV_i < Len(CSV_data)
    /\ AllStrings(CSV_data[CSV_i + 1])
    /\ \E outcome \in {"buffered", "through", "failed"} :
          LET w == WriterWrite(CSV_file, CSV_writer, CSV_i + 1, outcome) IN
          /\ CSV_file' = w.file
          /\ CSV_writer' = w.writer
    /\ CSV_i' = CSV_i + 1
    /\ UNCHANGED <<pc, calls, batchVars, filterVars, anyVars, mrVars>>
    /\ UNCHANGED <<existVars, reverseVars, filterNilVars, CSV_data, CSV_ret>>

\* Lines 314, 296: a field that holds no string panics; the deferred
\* file.Close() runs, writer.Flush() does not.
SaveAsCSV_RowPanic ==
    /\ pc = "SaveAsCSV.rows"
    /\ CSV_i < Len(CSV_data)
    /\ ~AllStrings(CSV_data[CSV_i + 1])
    /\ CSV_file' = FileClose(CSV_file)
    /\ pc' = "SaveAsCSV.panicked"
    /\ UNCHANGED <<calls, batchVars, filterVars, anyVars, mrVars>>
    /\ UNCHANGED <<existVars, reverseVars, filterNilVars, CSV_data, CSV_writer, CSV_i, CSV_ret>>

\* Lines 319-321, 296: the writer is flushed, nil is returned, and the
\* deferred file.Close() runs.
SaveAsCSV_Return ==
    /\ pc = "SaveAsCSV.rows"
    /\ ~(CSV_i < Len(CSV_data))
    /\ \E outcome \in {"through", "failed"} :
          LET w == WriterFlush(CSV_file, CSV_writer, outcome) IN
          /\ CSV_file' = FileClose(w.file)
          /\ CSV_writer' = w.writer
    /\ CSV_ret' = "nil"
    /\ pc' = "SaveAsCSV.returned"
    /\ UNCHANGED <<calls, batchVars, filterVars, anyVars, mrVars>>
    /\ UNCHANGED <<existVars, reverseVars, filterNilVars, CSV_data, CSV_i>>

Init ==
    /\ pc = "idle"
    /\ calls = <<>>
    /\ Batch_items = <<>>
    /\ Batch_arg = 0
    /\ Batch_batchSize = 0
    /\ Batch_i = 0
    /\ Batch_batches = NilSlice
    /\ Filter_data = <<>>
    /\ Filter_predicate = [e \in Elem |-> FALSE]
    /\ Filter_k = 0
    /\ Filter_result = NilSlice
    /\ Any_data = <<>>
    /\ Any_predicate = [e \in Elem |-> FALSE]
    /\ Any_k = 0
    /\ Any_ret = FALSE
    /\ MR_items = <<>>
    /\ MR_mapper = [e \in MRElem |-> FALSE]
    /\ MR_reducer = [ab \in BOOLEAN \X BOOLEAN |-> FALSE]
    /\ MR_mappedItems = NilSlice
    /\ MR_reducedResult = FALSE
    /\ MR_i = 0
    /\ Exist_what = NilValue
    /\ Exist_in = [kind |-> "slice", elemKind |-> "interface", elems |-> <<>>]
    /\ Exist_ret = FALSE
    /\ Reverse_in = <<>>
    /\ Reverse_slice = <<>>
    /\ Reverse_result = <<>>
    /\ FilterNil_slice = <<>>
    /\ FilterNil_result = NilSlice
    /\ CSV_data = <<>>
    /\ CSV_file = NoFile
    /\ CSV_writer = NewWriter
    /\ CSV_i = 0
    /\ CSV_ret = "none"

Next ==
    \/ Batch_Call
    \/ Batch_Loop
    \/ Batch_Panic
    \/ Batch_Return
    \/ Filter_Call
    \/ Filter_Loop
    \/ Filter_Return
    \/ Any_Call
    \/ Any_Match
    \/ Any_NoMatch
    \/ Any_ReturnFalse
    \/ MapReduce_Call
    \/ MapReduce_Map
    \/ MapReduce_Seed
    \/ MapReduce_Panic
    \/ MapReduce_Reduce
    \/ MapReduce_Return
    \/ IsExist_Call
    \/ IsExist_Return
    \/ IsExist_Panic
    \/ Reverse_Call
    \/ Reverse_Again
    \/ FilterNil_Call
    \/ FilterNil_Again
    \/ SaveAsCSV_Create
    \/ SaveAsCSV_CreateFails
    \/ SaveAsCSV_Header
    \/ SaveAsCSV_Row
    \/ SaveAsCSV_RowPanic
    \/ SaveAsCSV_Return

Spec == Init /\ [][Next]_vars

\* ------------------------------------------------------------ claims

RECURSIVE Flatten(_)
Flatten(ss) == IF ss = <<>> THEN <<>> ELSE Head(ss) \o Flatten(Tail(ss))

\* C1: for every sequence S and batch size b > 0, Batch(S, b) returns
\* consecutive sub-sequences whose concatenation is S, each of length at most
\* b, all of one length except the last, which may be shorter.
C1_BatchPartition ==
    (pc = "Batch.returned" /\ Batch_arg > 0) =>
        LET bs == Batch_batches.elems
            n  == Len(bs) IN
        /\ Flatten(bs) = Batch_items
        /\ \A k \in 1..n : Len(bs[k]) <= Batch_arg
        /\ \A k \in 1..n : k < n => Len(bs[k]) = Len(bs[1])
        /\ n > 0 => Len(bs[n]) <= Len(bs[1])

\* Batch([1,2,3], 2) has returned [[1,2],[3]].
C1_Witness ==
    /\ pc = "Batch.returned"
    /\ Batch_arg = 2
    /\ Batch_items = <<1, 2, 3>>
    /\ Batch_batches.elems = <<(<<1, 2>>), (<<3>>)>>

\* C2: for every sequence S and batch size b <= 0, Batch(S, b) aborts: it
\* never returns and never completes a loop iteration (no batch, so no
\* zero-sized batch, is ever produced and the loop never spins).
C2_NonPositiveBatchSizeFailsFast ==
    (pc \in {"Batch.loop", "Batch.returned", "Batch.panicked"} /\ Batch_arg <= 0) =>
        /\ pc # "Batch.returned"
        /\ Batch_batches.elems = <<>>
\* The left fold of the mapped items 1..n of S, seeded with the first one.
RECURSIVE LeftFold(_, _, _, _)
LeftFold(r, m, S, n) ==
    IF n = 1 THEN m[S[1]] ELSE r[<<LeftFold(r, m, S, n - 1), m[S[n]]>>]

\* The invocations MapReduce owes for S: the mapper on every element in index
\* order, then the reducer on each accumulator and the next mapped item.
MapReduceInvocations(r, m, S) ==
    [c \in 1..Len(S) |-> Invocation("mapper", c - 1, S[c], FALSE)]
    \o [c \in 1..(Len(S) - 1) |->
            Invocation("reducer", c, LeftFold(r, m, S, c), m[S[c + 1]])]

\* C6: for every non-empty S, MapReduce invokes the mapper once per element
\* in index order, all of them before the first reducer invocation, and
\* returns the left fold of the mapped items seeded with the first one; for
\* one element the reducer is never invoked and the result is m(s0).
C6_MapReduceLeftFold ==
    (pc \in {"MapReduce.map", "MapReduce.reduce", "MapReduce.returned"}
        /\ MR_items # <<>>) =>
        LET owed == MapReduceInvocations(MR_reducer, MR_mapper, MR_items) IN
        /\ Len(calls) <= Len(owed)
        /\ \A c \in 1..Len(calls) : calls[c] = owed[c]
        /\ pc = "MapReduce.returned" =>
              /\ calls = owed
              /\ MR_reducedResult =
                    LeftFold(MR_reducer, MR_mapper, MR_items, Len(MR_items))
              /\ Len(MR_items) = 1 =>
                    /\ \A c \in 1..Len(calls) : calls[c].f # "reducer"
                    /\ MR_reducedResult = MR_mapper[MR_items[1]]

\* MapReduce of three elements has returned after three mapper and two
\* reducer invocations, with a reducer for which the fold order matters.
C6_Witness ==
    /\ pc = "MapReduce.returned"
    /\ Len(MR_items) = 3
    /\ Len(calls) = 5
    /\ MR_reducer[<<TRUE, FALSE>>] # MR_reducer[<<FALSE, TRUE>>]
    /\ MR_mapper[MR_items[1]] # MR_mapper[MR_items[3]]

\* C7: Any(S, p) returns true iff some element of S satisfies p; p is invoked
\* on the elements in index order and on none after the first it holds of;
\* on an empty S it is never invoked and the result is false.
C7_AnyShortCircuits ==
    (pc \in {"Any.loop", "Any.returned"}) =>
        /\ Len(calls) <= Len(Any_data)
        /\ \A c \in 1..Len(calls) :
              calls[c] = Invocation("predicate", c - 1, Any_data[c], FALSE)
        /\ \A c \in 1..(Len(calls) - 1) : ~Any_predicate[Any_data[c]]
        /\ pc = "Any.returned" =>
              /\ Any_ret = (\E c \in 1..Len(Any_data) : Any_predicate[Any_data[c]])
              /\ Any_ret => Any_predicate[Any_data[Len(calls)]]
              /\ ~Any_ret => Len(calls) = Len(Any_data)

\* Any has returned true after two invocations on a three-element sequence
\* whose last element was never looked at.
C7_Witness ==
    /\ pc = "Any.returned"
    /\ Any_ret
    /\ Len(Any_data) = 3
    /\ Len(calls) = 2

\* C9: Filter(S, p) invokes p exactly once per element of S in index order
\* and returns a new, never nil, sequence of exactly the elements p holds
\* of, in their original order (so no longer than S).
C9_FilterSelects ==
    (pc \in {"Filter.loop", "Filter.returned"}) =>
        /\ Len(calls) = Filter_k
        /\ Filter_k <= Len(Filter_data)
        /\ \A c \in 1..Len(calls) :
              calls[c] = Invocation("predicate", c - 1, Filter_data[c], FALSE)
        /\ pc = "Filter.returned" =>
              /\ Len(calls) = Len(Filter_data)
              /\ Filter_result.elems =
                    SelectSeq(Filter_data, LAMBDA d : Filter_predicate[d])
              /\ Len(Filter_result.elems) <= Len(Filter_data)
              /\ ~Filter_result.isNil

\* Filter([1,2,3], p) has returned [1,3], its predicate invoked three times.
C9_Witness ==
    /\ pc = "Filter.returned"
    /\ Filter_data = <<1, 2, 3>>
    /\ Filter_result.elems = <<1, 3>>
    /\ Len(calls) = 3

\* The categories of the specification, by kind.
Category(kind) ==
    CASE kind \in IntKinds \cup UintKinds -> "integer"
      [] kind \in FloatKinds -> "float"
      [] kind = "string" -> "string"
      [] kind = "bool" -> "boolean"
      [] kind = "nil" -> "nil"
      [] OTHER -> "structured"

\* Equality of two values of one category under that category's rule.
CategoryEqual(p, e) ==
    /\ Category(p.kind) = Category(e.kind)
    /\ IF Category(p.kind) = "float" THEN Abs(p.val[1] - e.val[1]) < epsilon
       ELSE p.val = e.val

\* C3: IsExist(p, S) is true iff S, of possibly mixed elements, holds an
\* element of p's category that equals p under that category's rule (exact
\* for integers, strings and booleans, within 1e-6 for floats, deep equality
\* otherwise); it is false for an empty S.
C3_IsExistMembership ==
    pc = "IsExist.returned" =>
        Exist_ret = (\E k \in 1..Len(Exist_in.elems) :
                        CategoryEqual(Exist_what, Exist_in.elems[k]))

\* C4: every I/O failure inside SaveAsCSV is returned as a non-nil error: a
\* failed create is returned with nothing written, a failed write or flush
\* is returned too, and nil is returned only when the header and every
\* record reached the destination.
C4_SaveAsCSVSurfacesFailures ==
    pc = "SaveAsCSV.returned" =>
        /\ ~CSV_file.created =>
              CSV_ret = "err" /\ CSV_file.rows = <<>> /\ CSV_writer.buf = <<>>
        /\ CSV_writer.err => CSV_ret = "err"
        /\ CSV_ret = "nil" => CSV_file.rows = [k \in 1..(Len(CSV_data) + 1) |-> k - 1]

\* C5: once the file is created it is flushed and closed exactly once on
\* every exit, the return and the panic on a field that holds no string
\* alike, so no row handed to the writer stays in its buffer.
C5_SaveAsCSVReleasesSink ==
    (pc \in {"SaveAsCSV.returned", "SaveAsCSV.panicked"} /\ CSV_file.created) =>
        /\ ~CSV_file.open
        /\ CSV_file.closes = 1
        /\ CSV_writer.flushes = 1
        /\ ~CSV_writer.err => CSV_writer.buf = <<>>

\* C8: Reverse(S) returns a new sequence R of the length of S with
\* R[i] = S[n-1-i], leaves S unchanged, and Reverse(Reverse(S)) = S.
C8_ReverseInvolution ==
    /\ pc = "Reverse.returned" =>
          /\ Reverse_slice = Reverse_in
          /\ Len(Reverse_result) = Len(Reverse_in)
          /\ \A k \in 1..Len(Reverse_in) :
                Reverse_result[k] = Reverse_in[Len(Reverse_in) + 1 - k]
    /\ pc = "Reverse.returnedTwice" => Reverse_result = Reverse_in

\* Reverse([1,2,3]) returned [3,2,1], and reversing that returned [1,2,3].
C8_Witness ==
    /\ pc = "Reverse.returnedTwice"
    /\ Reverse_in = <<1, 2, 3>>
    /\ Reverse_slice = <<3, 2, 1>>
    /\ Reverse_result = <<1, 2, 3>>

\* C10: FilterNil(S) returns a new sequence with no nil element that keeps
\* every other element of S in its original order, and
\* FilterNil(FilterNil(S)) = FilterNil(S).
C10_FilterNilIdempotent ==
    /\ pc \in {"FilterNil.returned", "FilterNil.returnedTwice"} =>
          /\ \A k \in 1..Len(FilterNil_result.elems) :
                FilterNil_result.elems[k] # NilInterface
          /\ FilterNil_result.elems =
                SelectSeq(FilterNil_slice, LAMBDA v : v # NilInterface)
    /\ pc = "FilterNil.returnedTwice" => FilterNil_result.elems = FilterNil_slice

\* FilterNil of a sequence holding a nil returned [1, (*int)(nil)], and
\* filtering that result again returned it unchanged.
C10_Witness ==
    /\ pc = "FilterNil.returnedTwice"
    /\ FilterNil_slice = FilterNil_result.elems
    /\ FilterNil_result.elems = <<[typ |-> "int", val |-> 1], [typ |-> "*int", val |-> 0]>>
====
